---- MODULE Spec2Model ----
(***************************************************************************)
(* Model of library/forticare_register_units.py: one invocation of the     *)
(* module (main -> forticare_register_units -> requests.post -> outcome).  *)
(*                                                                         *)
(* Python values are tagged tuples so that values of different Python      *)
(* types can live in the same dictionary slot and be compared:             *)
(*   None  <<"None">>        int   <<"int", n>>      str  <<"str", s>>     *)
(*   bool  <<"bool", b>>     list  <<"list", seq>>   dict <<"dict", f>>    *)
(* where f is a function from key strings to Python values.                *)
(***************************************************************************)
EXTENDS Integers, Sequences, FiniteSets, TLC

VARIABLES pc, data, body_data, sent, r, ret, exc, report

vars == <<pc, data, body_data, sent, r, ret, exc, report>>

MaxUnits == 2

-----------------------------------------------------------------------------
(* Python values *)

None == <<"None">>
PyInt(n) == <<"int", n>>
PyStr(s) == <<"str", s>>
PyBool(b) == <<"bool", b>>
PyList(s) == <<"list", s>>
PyDict(f) == <<"dict", f>>

Kind(v) == v[1]
EmptyDict == PyDict([k \in {} |-> None])

\* bool(v): the truth value Python gives v in `if v` / `x and v`.
Truthy(v) ==
    CASE Kind(v) = "None" -> FALSE
      [] Kind(v) = "bool" -> v[2]
      [] Kind(v) = "int"  -> v[2] # 0
      [] Kind(v) = "str"  -> v[2] # ""
      [] Kind(v) = "list" -> Len(v[2]) > 0
      [] Kind(v) = "dict" -> DOMAIN v[2] # {}

\* `k in d` for a dict d.
In(k, d) == k \in DOMAIN d[2]

\* d[k] for a dict d that has k.
Get(d, k) == d[2][k]

\* d[k] = v on a dict d.
DictSet(d, k, v) ==
    PyDict([x \in (DOMAIN d[2]) \cup {k} |-> IF x = k THEN v ELSE d[2][x]])

\* v != 0 with Python's numeric equality (False == 0, True == 1).
PyNeZero(v) ==
    CASE Kind(v) = "int"  -> v[2] # 0
      [] Kind(v) = "bool" -> v[2]
      [] OTHER            -> TRUE

-----------------------------------------------------------------------------
(* Payload construction, lines 122-142 *)

\* Faulty variant: the truthiness test dropped, `if key in d: out[wire] = d[key]`.
CopyIfPresent(out, d, key, wire) ==
    IF In(key, d) THEN DictSet(out, wire, Get(d, key)) ELSE out

\* `if key in d and d[key]: out[wire] = d[key]`
CopyIfTruthy(out, d, key, wire) ==
    IF In(key, d) /\ Truthy(Get(d, key)) THEN DictSet(out, wire, Get(d, key)) ELSE out

\* One pass of the loop body, lines 128-140.
unit_data(unit) ==
    LET u0 == PyDict([k \in {"Serial_Number"} |-> Get(unit, "serial_number")])
        u1 == CopyIfTruthy(u0, unit, "contract_number", "Contract_Number")
        u2 == CopyIfTruthy(u1, unit, "description", "Description")
        u3 == CopyIfTruthy(u2, unit, "asset_group_ids", "Asset_Group_IDS")
        u4 == CopyIfTruthy(u3, unit, "replaced_serial_number", "Replaced_Serial_Number")
        u5 == CopyIfTruthy(u4, unit, "additional_info", "Additional_Info")
        u6 == CopyIfTruthy(u5, unit, "is_government", "Is_Government")
    IN  u6

\* Faulty variant: insert(0, unit_data) instead of append(unit_data).
RECURSIVE RegistrationUnitsReversed(_)
RegistrationUnitsReversed(units) ==
    IF units = <<>> THEN <<>>
    ELSE <<unit_data(units[Len(units)])>> \o
         RegistrationUnitsReversed(SubSeq(units, 1, Len(units) - 1))

\* The for loop with its append, lines 125-142.
RECURSIVE RegistrationUnits(_)
RegistrationUnits(units) ==
    IF units = <<>> THEN <<>>
    ELSE Append(RegistrationUnits(SubSeq(units, 1, Len(units) - 1)),
                unit_data(units[Len(units)]))

\* Faulty variant: `if 'version' in data:` without the truthiness test.
BodyHeadVersionIfPresent(d) ==
    CopyIfPresent(PyDict([k \in {"Token"} |-> Get(d, "token")]), d, "version", "Version")

\* Lines 122-124.
BodyHead(d) ==
    CopyIfTruthy(PyDict([k \in {"Token"} |-> Get(d, "token")]), d, "version", "Version")

\* Lines 122-142.
BuildBody(d) ==
    DictSet(BodyHead(d), "RegistrationUnits",
            PyList(RegistrationUnits(Get(d, "registration_units")[2])))

URL == "https://support.fortinet.com/ES/FCWS_RegistrationService.svc/REST/REST_RegisterUnits"

-----------------------------------------------------------------------------
(* The remote side: what requests.post can do, line 147 *)

\* Exception classes requests.post raises on a transport failure.
TransportFailures == {"ConnectTimeout", "ReadTimeout", "ConnectionError", "SSLError"}

\* Faulty variant: `except requests.exceptions.ReadTimeout:`.
IsReadTimeout(e) == e = "ReadTimeout"

\* isinstance(e, requests.exceptions.Timeout), the test of `except` at line 149.
IsTimeout(e) == e \in {"Timeout", "ConnectTimeout", "ReadTimeout"}

StatusCodes == {200, 201, 404, 500}

ReasonPhrase(code) ==
    CASE code = 200 -> "OK"
      [] code = 201 -> "Created"
      [] code = 404 -> "Not Found"
      [] code = 500 -> "Internal Server Error"

\* Response bodies the server can send (r.content).
Bodies ==
    { "", "<html>Service Unavailable</html>", "null", "0", "5", "\"Success\"",
      "[]", "[1]", "{}", "{\"Error\": \"Invalid Token\"}",
      "{\"Status\": 0, \"Message\": \"Success\"}",
      "{\"Status\": 1, \"Error\": \"Already Registered\"}",
      "{\"Status\": \"0\"}", "{\"Status\": false}", "{\"Status\": null}" }

Responses ==
    { <<"Response", [status_code |-> c, reason |-> ReasonPhrase(c), content |-> b]>> :
        c \in StatusCodes, b \in Bodies }

Raise(cls) == <<"raise", cls>>
IsRaise(v) == Kind(v) = "raise"

\* json.loads on the bodies above: the parsed value, or the exception it raises.
json_loads(text) ==
    CASE text = "null" -> None
      [] text = "0" -> PyInt(0)
      [] text = "5" -> PyInt(5)
      [] text = "\"Success\"" -> PyStr("Success")
      [] text = "[]" -> PyList(<<>>)
      [] text = "[1]" -> PyList(<<PyInt(1)>>)
      [] text = "{}" -> EmptyDict
      [] text = "{\"Error\": \"Invalid Token\"}" ->
            PyDict([k \in {"Error"} |-> PyStr("Invalid Token")])
      [] text = "{\"Status\": 0, \"Message\": \"Success\"}" ->
            PyDict([k \in {"Status", "Message"} |->
                      IF k = "Status" THEN PyInt(0) ELSE PyStr("Success")])
      [] text = "{\"Status\": 1, \"Error\": \"Already Registered\"}" ->
            PyDict([k \in {"Status", "Error"} |->
                      IF k = "Status" THEN PyInt(1) ELSE PyStr("Already Registered")])
      [] text = "{\"Status\": \"0\"}" -> PyDict([k \in {"Status"} |-> PyStr("0")])
      [] text = "{\"Status\": false}" -> PyDict([k \in {"Status"} |-> PyBool(FALSE)])
      [] text = "{\"Status\": null}" -> PyDict([k \in {"Status"} |-> None])
      [] OTHER -> Raise("JSONDecodeError")

-----------------------------------------------------------------------------
(* Outcome, lines 149-165 *)

\* The 3-tuple the function returns.
Return(is_error, has_changed, result) ==
    <<"ret", [is_error |-> is_error, changed |-> has_changed, result |-> result]>>

\* Lines 150-152.
TimeoutReturn ==
    Return(TRUE, FALSE, [status_code |-> None,
                         reason |-> PyStr("Timeout contacting FortiCare server"),
                         content |-> None])

\* str(e.__traceback__) + str(traceback.format_exc()), line 156.
Diagnostic(e) ==
    PyStr("<traceback object>" \o "Traceback (most recent call last): " \o e)

\* Lines 154-156.
GeneralReturn(e) ==
    Return(TRUE, FALSE, [status_code |-> None,
                         reason |-> PyStr("General exception when running POST on FortiCare server"),
                         content |-> Diagnostic(e)])

\* Faulty variant: `except Exception` placed first, so it catches the timeouts too.
ExceptReturnGeneralFirst(e) == GeneralReturn(e)

\* The except clauses in order, lines 149-156.
ExceptReturn(e) == IF IsTimeout(e) THEN TimeoutReturn ELSE GeneralReturn(e)

\* bool(r) for a requests.Response: Response.__bool__ is Response.ok,
\* false for the 4xx and 5xx status codes.
ResponseTruthy(resp) == ~(400 <= resp[2].status_code /\ resp[2].status_code < 600)

\* Line 158 (`'content' in dir(r)` holds of every Response).
ContentOf(resp) == IF ResponseTruthy(resp) THEN json_loads(resp[2].content) ELSE None

\* Lines 160-162.
ResultOf(resp, content) ==
    [status_code |-> IF ResponseTruthy(resp) THEN PyInt(resp[2].status_code) ELSE None,
     reason      |-> IF ResponseTruthy(resp) THEN PyStr(resp[2].reason) ELSE None,
     content     |-> content]

\* content['Status'] != 0, with the exception the subscript raises.
StatusNotZero(content) ==
    IF Kind(content) # "dict" THEN Raise("TypeError")
    ELSE IF ~In("Status", content) THEN Raise("KeyError")
    ELSE PyBool(PyNeZero(Get(content, "Status")))

\* Faulty variant: `and` in place of `or`.
SuccessAnd(resp, content) ==
    IF Truthy(content)
    THEN IF resp[2].status_code # 200 THEN StatusNotZero(content) ELSE PyBool(FALSE)
    ELSE PyBool(TRUE)

\* Line 164: (r.status_code != 200 or content['Status'] != 0) if content else True
Success(resp, content) ==
    IF Truthy(content)
    THEN IF resp[2].status_code # 200 THEN PyBool(TRUE) ELSE StatusNotZero(content)
    ELSE PyBool(TRUE)

\* Faulty variant: `return success, success, result`.
ReturnSuccessSame(success, result) == Return(success, success, result)

\* Line 165.
ReturnSuccess(success, result) == Return(success, ~success, result)

\* Lines 158-165: the returned tuple, or the exception that leaves the function.
HandleResponse(resp) ==
    LET content == ContentOf(resp) IN
    IF IsRaise(content) THEN content
    ELSE LET success == Success(resp, content) IN
         IF IsRaise(success) THEN success
         ELSE ReturnSuccess(success[2], ResultOf(resp, content))

-----------------------------------------------------------------------------
(* Inputs: module.params as AnsibleModule hands them to the function *)

Absent == <<"absent">>

Serials == {"S1", "S2"}
Tokens == {"token-A", "token-B"}
Versions == {Absent, None, PyStr(""), PyStr("1.0")}

StrKeys == {"contract_number", "description", "replaced_serial_number", "additional_info"}
OptKeys == StrKeys \cup {"asset_group_ids", "is_government"}

TruthyValue(k) ==
    CASE k = "asset_group_ids" -> PyList(<<PyStr("g1"), PyStr("g2")>>)
      [] k = "is_government"   -> PyBool(TRUE)
      [] OTHER                 -> PyStr(k \o "-value")

DefaultValue(k) == IF k = "is_government" THEN PyBool(FALSE) ELSE None

ValuesFor(k) ==
    CASE k = "asset_group_ids" -> {None, PyList(<<>>), TruthyValue(k)}
      [] k = "is_government"   -> {PyBool(FALSE), TruthyValue(k)}
      [] OTHER                 -> {None, PyStr(""), TruthyValue(k)}

\* A unit dict with the keys of `keys` besides serial_number.
Unit(serial, keys, truthy) ==
    PyDict([k \in {"serial_number"} \cup keys |->
              IF k = "serial_number" THEN PyStr(serial)
              ELSE IF truthy THEN TruthyValue(k) ELSE DefaultValue(k)])

OneKeyUnits ==
    { PyDict([x \in {"serial_number", k} |-> IF x = k THEN v ELSE PyStr(s)]) :
        s \in Serials, k \in OptKeys, v \in UNION {ValuesFor(j) : j \in OptKeys} }

AllUnits ==
    { u \in OneKeyUnits : \A k \in OptKeys : In(k, u) => Get(u, k) \in ValuesFor(k) }
    \cup { Unit(s, {}, FALSE) : s \in Serials }
    \cup { Unit(s, OptKeys, FALSE) : s \in Serials }
    \cup { Unit(s, OptKeys, TRUE) : s \in Serials }

SampleUnits == { Unit("S1", OptKeys, FALSE), Unit("S2", OptKeys, TRUE) }

SeqsUpTo(S, n) == UNION { [1..m -> S] : m \in 0..n }

Request(token, version, units) ==
    LET d == PyDict([k \in {"token", "registration_units"} |->
                       IF k = "token" THEN PyStr(token) ELSE PyList(units)])
    IN  IF version = Absent THEN d ELSE DictSet(d, "version", version)

RequestsOver(units, versions) ==
    { Request(t, v, us) : t \in Tokens, v \in versions, us \in SeqsUpTo(units, MaxUnits) }

-----------------------------------------------------------------------------
(* The invocation *)

InitWith(requests) ==
    /\ data \in requests
    /\ pc = "start"
    /\ body_data = None
    /\ sent = <<>>
    /\ r = None
    /\ ret = None
    /\ exc = None
    /\ report = None

\* Lines 122-142: the payload is built.
BuildPayload ==
    /\ pc = "start"
    /\ body_data' = BuildBody(data)
    /\ pc' = "built"
    /\ UNCHANGED <<data, sent, r, ret, exc, report>>

\* Line 147: the request goes out.
Post ==
    /\ pc = "built"
    /\ sent' = Append(sent, [url |-> URL, json |-> body_data, timeout |-> 10, verify |-> TRUE])
    /\ pc' = "posted"
    /\ UNCHANGED <<data, body_data, r, ret, exc, report>>

\* Faulty variant: a timeout sends the request once more.
PostRaisesRetry(e) ==
    /\ pc = "posted"
    /\ IF e \in {"ConnectTimeout", "ReadTimeout"} /\ Len(sent) < 2
       THEN /\ pc' = "built"
            /\ UNCHANGED <<r, ret>>
       ELSE /\ r' = <<"Exception", e>>
            /\ ret' = ExceptReturn(e)
            /\ pc' = "returned"
    /\ UNCHANGED <<data, body_data, sent, exc, report>>

\* Lines 149-156: requests.post raises e.
PostRaises(e) ==
    /\ pc = "posted"
    /\ r' = <<"Exception", e>>
    /\ ret' = ExceptReturn(e)
    /\ pc' = "returned"
    /\ UNCHANGED <<data, body_data, sent, exc, report>>

\* Lines 158-165: requests.post returns resp.
PostReturns(resp) ==
    /\ pc = "posted"
    /\ r' = resp
    /\ LET out == HandleResponse(resp) IN
         IF IsRaise(out)
         THEN /\ exc' = out
              /\ pc' = "raised"
              /\ ret' = ret
         ELSE /\ ret' = out
              /\ pc' = "returned"
              /\ exc' = exc
    /\ UNCHANGED <<data, body_data, sent, report>>

\* Lines 191-192.
MainExit ==
    /\ pc = "returned"
    /\ ~ret[2].is_error
    /\ report' = <<"exit_json", [changed |-> ret[2].changed, meta |-> ret[2].result]>>
    /\ pc' = "exited"
    /\ UNCHANGED <<data, body_data, sent, r, ret, exc>>

\* Lines 193-194.
MainFail ==
    /\ pc = "returned"
    /\ ret[2].is_error
    /\ report' = <<"fail_json", [msg |-> "Error in repo", meta |-> ret[2].result]>>
    /\ pc' = "failed"
    /\ UNCHANGED <<data, body_data, sent, r, ret, exc>>

Init == InitWith(RequestsOver(SampleUnits, {None, PyStr("1.0")}))

Next ==
    \/ BuildPayload
    \/ Post
    \/ \E e \in TransportFailures : PostRaises(e)
    \/ \E resp \in Responses : PostReturns(resp)
    \/ MainExit
    \/ MainFail

Spec == Init /\ [][Next]_vars

\* Payload construction alone, over the wide input set.
InitPayload == InitWith(RequestsOver(AllUnits, Versions))

NextPayload == BuildPayload

SpecPayload == InitPayload /\ [][NextPayload]_vars

-----------------------------------------------------------------------------
(* Properties *)

Returned == pc \in {"returned", "exited", "failed"}
GotResponse == Kind(r) = "Response"
GotException == Kind(r) = "Exception"
TimeoutClasses == {"ConnectTimeout", "ReadTimeout"}
InUnits == Get(data, "registration_units")[2]
OutUnits == Get(body_data, "RegistrationUnits")[2]
TimeoutReason == PyStr("Timeout contacting FortiCare server")
GeneralReason == PyStr("General exception when running POST on FortiCare server")

WireName(k) ==
    CASE k = "contract_number"        -> "Contract_Number"
      [] k = "description"            -> "Description"
      [] k = "asset_group_ids"        -> "Asset_Group_IDS"
      [] k = "replaced_serial_number" -> "Replaced_Serial_Number"
      [] k = "additional_info"        -> "Additional_Info"
      [] k = "is_government"          -> "Is_Government"

\* Present and truthy: not None, not "", not [], not False.
PresentAndTruthy(d, k) ==
    In(k, d) /\ Get(d, k) \notin {None, PyStr(""), PyList(<<>>), PyBool(FALSE)}

\* C1: whatever the remote side does, the function never raises to its
\* caller; the invocation ends by returning a structured outcome.
C1_NeverRaises == pc # "raised"

\* C2: when a response was received and an outcome returned, is_error is
\* false and changed is true if and only if the status code is 200 and the
\* parsed body has a Status field equal to 0 (equal as the language compares:
\* 0 == False); every other combination gives is_error true, changed false.
C2_SuccessIffOkAndStatusZero ==
    (Returned /\ GotResponse) =>
        LET parsed == json_loads(r[2].content)
            ok == /\ r[2].status_code = 200
                  /\ Kind(parsed) = "dict"
                  /\ In("Status", parsed)
                  /\ Get(parsed, "Status") \in {PyInt(0), PyBool(FALSE)}
        IN  /\ ok <=> (~ret[2].is_error /\ ret[2].changed)
            /\ ~ok => (ret[2].is_error /\ ~ret[2].changed)

C2_Witness ==
    /\ pc = "returned" /\ GotResponse
    /\ r[2].status_code = 200
    /\ ~ret[2].is_error /\ ret[2].changed

\* C3: for every received response, whatever its status code, the outcome's
\* status_code and reason are those of the response and content is the
\* parsed body; status_code and reason are not null.
C3_OutcomeCarriesResponse ==
    (Returned /\ GotResponse) =>
        /\ ret[2].result.status_code = PyInt(r[2].status_code)
        /\ ret[2].result.reason = PyStr(r[2].reason)
        /\ ret[2].result.content = json_loads(r[2].content)

\* C4: in every unit's payload entry, each optional wire key is present if
\* and only if the input value is present and truthy, and then carries the
\* input value unchanged; no other key besides Serial_Number appears.
C4_OptionalIffTruthy ==
    body_data # None =>
        /\ Len(OutUnits) = Len(InUnits)
        /\ \A i \in 1..Len(InUnits) :
             /\ \A k \in OptKeys :
                  /\ In(WireName(k), OutUnits[i]) <=> PresentAndTruthy(InUnits[i], k)
                  /\ PresentAndTruthy(InUnits[i], k) =>
                        Get(OutUnits[i], WireName(k)) = Get(InUnits[i], k)
             /\ DOMAIN OutUnits[i][2] \subseteq
                    {"Serial_Number"} \cup {WireName(k) : k \in OptKeys}

C4_Witness ==
    /\ pc = "built"
    /\ \E i \in 1..Len(InUnits) :
         /\ In("is_government", InUnits[i])
         /\ Get(InUnits[i], "is_government") = PyBool(FALSE)
         /\ ~In("Is_Government", OutUnits[i])
    /\ \E i \in 1..Len(InUnits) :
         /\ In("asset_group_ids", InUnits[i])
         /\ In("Asset_Group_IDS", OutUnits[i])

\* C5: RegistrationUnits has the length of the input, and its i-th entry is
\* the one built from the i-th input unit, with that unit's serial number.
C5_OrderPreserved ==
    body_data # None =>
        /\ Len(OutUnits) = Len(InUnits)
        /\ \A i \in 1..Len(InUnits) :
             /\ In("Serial_Number", OutUnits[i])
             /\ Get(OutUnits[i], "Serial_Number") = Get(InUnits[i], "serial_number")
             /\ OutUnits[i] = unit_data(InUnits[i])

C5_Witness ==
    /\ pc = "built"
    /\ Len(InUnits) = 2
    /\ Get(InUnits[1], "serial_number") # Get(InUnits[2], "serial_number")
    /\ In("description", InUnits[1])

\* C6: when the POST times out the outcome is exactly status_code null, the
\* timeout reason, content null, is_error true, changed false.
C6_TimeoutOutcome ==
    (pc \notin {"start", "built", "posted"} /\ GotException /\ r[2] \in TimeoutClasses) =>
        ret = <<"ret", [is_error |-> TRUE, changed |-> FALSE,
                        result |-> [status_code |-> None,
                                    reason |-> TimeoutReason,
                                    content |-> None]]>>

C6_Witness ==
    pc = "returned" /\ GotException /\ r[2] = "ConnectTimeout" /\ Len(InUnits) > 0

\* C7: a transport failure other than a timeout gives status_code null, the
\* general reason, a non-null diagnostic string, is_error true, changed
\* false; a timeout never gets the general reason and another failure never
\* gets the timeout reason.
C7_GeneralOutcome ==
    (pc \notin {"start", "built", "posted"} /\ GotException) =>
        IF r[2] \in TimeoutClasses
        THEN ret[2].result.reason # GeneralReason
        ELSE /\ ret[2].result.status_code = None
             /\ ret[2].result.reason = GeneralReason
             /\ ret[2].result.reason # TimeoutReason
             /\ Kind(ret[2].result.content) = "str"
             /\ ret[2].result.content[2] # ""
             /\ ret[2].is_error
             /\ ~ret[2].changed

C7_Witness ==
    pc = "returned" /\ GotException /\ r[2] = "SSLError"

\* C8: in every returned outcome changed = not is_error; main reports
\* exit_json with changed true exactly when is_error is false and fail_json
\* otherwise.
C8_Complementary ==
    /\ ret # None => (ret[2].changed = ~ret[2].is_error)
    /\ pc = "exited" =>
          /\ ~ret[2].is_error
          /\ report[1] = "exit_json"
          /\ report[2].changed = TRUE
    /\ pc = "failed" =>
          /\ ret[2].is_error
          /\ report[1] = "fail_json"
    /\ report # None => pc \in {"exited", "failed"}

C8_Witness ==
    pc = "exited" /\ report[1] = "exit_json" /\ GotResponse

\* C9: exactly one POST per invocation, sent after the payload is built and
\* before any outcome: nothing is sent before the payload exists, and from
\* the send on, through every outcome, exactly one request has been sent.
C9_ExactlyOnePost ==
    /\ pc \in {"start", "built"} => sent = <<>>
    /\ pc \notin {"start", "built"} =>
          /\ Len(sent) = 1
          /\ sent[1].json = BuildBody(data)
          /\ sent[1].url = URL
    /\ pc \in {"start", "built", "posted"} => (ret = None /\ exc = None /\ report = None)

C9_Witness ==
    pc = "failed" /\ GotException /\ r[2] = "ReadTimeout" /\ Len(sent) = 1

\* C10: the payload always has Token with the input token, and has Version
\* if and only if the input version is present and non-empty, with the
\* input version as its value.
C10_TokenAndVersion ==
    body_data # None =>
        /\ In("Token", body_data)
        /\ Get(body_data, "Token") = Get(data, "token")
        /\ In("Version", body_data) <=>
              (In("version", data) /\ Get(data, "version") \notin {None, PyStr("")})
        /\ In("Version", body_data) => Get(body_data, "Version") = Get(data, "version")

C10_Witness ==
    /\ pc = "built"
    /\ In("Version", body_data)
    /\ Get(body_data, "Version") = PyStr("1.0")

====
